---- MODULE Spec2Model ----
(***************************************************************************)
(* Sticky Notes: the Note table, the NoteForm validator and the five       *)
(* function-based views (list, detail, create, update, delete).            *)
(*                                                                         *)
(* A text is a sequence of characters.  A row of the Note table            *)
(* is a record [id, title, content]; the table is the set of its rows.     *)
(* A request carries its POST data as a function from the submitted field  *)
(* names to texts: a field that was not submitted is not in its domain.    *)
(***************************************************************************)
EXTENDS Integers, Sequences, FiniteSets, TLC

VARIABLES
    notes,      \* the Note table: a set of rows [id, title, content]
    nextId,     \* the table's auto-increment sequence: the next id it issues
    req,        \* the request being served (in SpecConc: the update request)
    resp,       \* the response to req
    pre,        \* history: the Note table as it was when req arrived
    issued,     \* history: the ids that inserts by note_create were given, in order
    pcU,        \* SpecConc: position of the note_update handler
    uNote,      \* SpecConc: the instance note_update holds in memory
    pcD,        \* SpecConc: position of the note_delete handler
    dNote,      \* SpecConc: the instance note_delete holds in memory
    respD,      \* SpecConc: the response of the note_delete handler
    form        \* SpecForm: a NoteForm bound to data, before and after is_valid()

vars == <<notes, nextId, req, resp, pre, issued, pcU, uNote, pcD, dNote, respD, form>>

----------------------------------------------------------------------------
(* Bounds *)

\* the largest id the table's sequence issues
MaxId == 2

\* the longest text SpecForm enumerates character by character
MaxLen == 2

----------------------------------------------------------------------------
(* Texts *)

\* Note.title = models.CharField(max_length=255)
TitleMaxLength == 255

Whitespace == {" "}

Rep(c, n) == [i \in 1..n |-> c]

RECURSIVE lstrip(_)
lstrip(s) == IF s # <<>> /\ Head(s) \in Whitespace THEN lstrip(Tail(s)) ELSE s

RECURSIVE rstrip(_)
rstrip(s) ==
    IF s # <<>> /\ s[Len(s)] \in Whitespace
    THEN rstrip(SubSeq(s, 1, Len(s) - 1))
    ELSE s

\* forms.CharField(strip=True).to_python: str.strip()
strip(s) == rstrip(lstrip(s))

----------------------------------------------------------------------------
(* NoteForm: a ModelForm over Note with fields title, content *)

Fields == {"title", "content"}

RequiredError ==
    [message |-> "This field is required.", limit_value |-> 0, show_value |-> 0]

NullError ==
    [message |-> "Null characters are not allowed.", limit_value |-> 0, show_value |-> 0]

MaxLengthError(n) ==
    [message |-> "Ensure this value has at most %(limit_value)d characters (it has %(show_value)d).",
     limit_value |-> TitleMaxLength, show_value |-> n]

\* the value of a field after widget extraction and to_python: a field that
\* was not submitted reads as None and becomes the empty text; a submitted
\* one is stripped
to_python(data, name) ==
    IF name \in DOMAIN data THEN strip(data[name]) ELSE <<>>

\* both fields are required (blank=False); title has max_length
has_max_length(name) == name = "title"

\* faulty variant: content is not required
field_errors_content_optional(data, name) ==
    LET v == to_python(data, name) IN
    IF v = <<>>
    THEN (IF name = "content" THEN {} ELSE {RequiredError})
    ELSE (IF has_max_length(name) /\ Len(v) > TitleMaxLength
          THEN {MaxLengthError(Len(v))} ELSE {})
         \cup
         (IF \E i \in 1..Len(v) : v[i] = "NUL" THEN {NullError} ELSE {})

\* faulty variant: the length limit is off by one
field_errors_off_by_one(data, name) ==
    LET v == to_python(data, name) IN
    IF v = <<>>
    THEN {RequiredError}
    ELSE (IF has_max_length(name) /\ Len(v) >= TitleMaxLength
          THEN {MaxLengthError(Len(v))} ELSE {})
         \cup
         (IF \E i \in 1..Len(v) : v[i] = "NUL" THEN {NullError} ELSE {})

\* Field.clean: validate (required), then run_validators (skipped on an
\* empty value), all validators' errors collected
field_errors(data, name) ==
    LET v == to_python(data, name) IN
    IF v = <<>>
    THEN {RequiredError}
    ELSE (IF has_max_length(name) /\ Len(v) > TitleMaxLength
          THEN {MaxLengthError(Len(v))} ELSE {})
         \cup
         (IF \E i \in 1..Len(v) : v[i] = "NUL" THEN {NullError} ELSE {})

\* faulty variant: validation stops at the first failing field
errors_first_field_only(data) ==
    IF field_errors(data, "title") # {}
    THEN [name \in {"title"} |-> field_errors(data, name)]
    ELSE [name \in {n \in Fields : field_errors(data, n) # {}} |-> field_errors(data, name)]

\* form.errors: the failing fields, each with its errors
errors(data) ==
    [name \in {n \in Fields : field_errors(data, n) # {}} |-> field_errors(data, name)]

is_valid(data) == DOMAIN errors(data) = {}

\* form.cleaned_data of a valid form
cleaned_data(data) == [name \in Fields |-> to_python(data, name)]

\* faulty variant: the submitted values are stored as they came
construct_instance_unstripped(instance, data) ==
    [id |-> instance.id, title |-> data["title"], content |-> data["content"]]

\* construct_instance: the cleaned values written onto the instance; the id
\* is the instance's own
construct_instance(instance, data) ==
    [id |-> instance.id,
     title |-> cleaned_data(data)["title"],
     content |-> cleaned_data(data)["content"]]

----------------------------------------------------------------------------
(* The Note table *)

NoNote == [id |-> 0, title |-> <<>>, content |-> <<>>]

Ids(store) == {r.id : r \in store}

exists(store, pk) == pk \in Ids(store)

get(store, pk) == CHOOSE r \in store : r.id = pk

\* faulty variant: the id is one more than the highest stored id
next_pk_max_plus_one(store, seq) ==
    IF store = {} THEN 1
    ELSE (CHOOSE i \in Ids(store) : \A j \in Ids(store) : j <= i) + 1

\* the id an INSERT without a primary key is given: the table's sequence,
\* which never hands out a value twice (AutoField)
next_pk(store, seq) == seq

\* faulty variant: save() always inserts
save_always_inserts(store, instance) == store \cup {instance}

\* Model.save(): with a primary key set, an UPDATE of the row with that key,
\* and an INSERT when the UPDATE matched no row
save(store, instance) ==
    IF exists(store, instance.id)
    THEN {IF r.id = instance.id THEN instance ELSE r : r \in store}
    ELSE store \cup {instance}

\* faulty variant: the DELETE has no WHERE clause
delete_all(store, instance) == {}

\* Model.delete(): DELETE of the row with the instance's key
delete(store, instance) == {r \in store : r.id # instance.id}

RECURSIVE order_by_id(_)
order_by_id(store) ==
    IF store = {} THEN <<>>
    ELSE LET first == CHOOSE r \in store : \A q \in store : r.id <= q.id
         IN  <<first>> \o order_by_id(store \ {first})

----------------------------------------------------------------------------
(* Requests and responses *)

Methods == {"GET", "POST"}

NoErrors == [name \in {} |-> {}]

NoData == [name \in {} |-> <<>>]

NoLocation == [name |-> "", pk |-> 0]

Request(op, method, pk, data) ==
    [op |-> op, method |-> method, pk |-> pk, data |-> data]

\* render(request, template, context)
Render(template, context, errs) ==
    [status |-> 200, template |-> template, location |-> NoLocation,
     context |-> context, errors |-> errs]

\* redirect(view name, pk=...)
Redirect(name, pk) ==
    [status |-> 302, template |-> "", location |-> [name |-> name, pk |-> pk],
     context |-> <<>>, errors |-> NoErrors]

\* Http404 raised by get_object_or_404
NotFound ==
    [status |-> 404, template |-> "", location |-> NoLocation,
     context |-> <<>>, errors |-> NoErrors]

NoResponse ==
    [status |-> 0, template |-> "", location |-> NoLocation,
     context |-> <<>>, errors |-> NoErrors]

----------------------------------------------------------------------------
(* Inputs *)

\* the data a POST may carry: any subset of the fields, each with a text
DataOver(titles, contents) ==
    {d \in UNION {[S -> titles \cup contents] : S \in SUBSET Fields} :
        /\ "title" \in DOMAIN d => d["title"] \in titles
        /\ "content" \in DOMAIN d => d["content"] \in contents}

\* empty, padded with blanks, plain, and one character too long
ReqTitles == {<<>>, <<" ", "a", " ">>, <<"b">>, Rep("a", TitleMaxLength + 1)}

\* blank only, plain, padded with a blank
ReqContents == {<<" ">>, <<"a">>, <<"b", " ">>}

PostData == DataOver(ReqTitles, ReqContents)

\* the primary keys a URL may name: every id the table can hold and one more
Pks == 1..(MaxId + 1)

----------------------------------------------------------------------------
(* The views, one request served at a time *)

Idle ==
    /\ pcU = "idle" /\ pcD = "idle"
    /\ form.bound = FALSE

Frame == UNCHANGED <<pcU, uNote, pcD, dNote, respD, form>>

Serve(r) ==
    /\ Idle
    /\ req' = r
    /\ pre' = notes
    /\ Frame

note_list(method) ==
    /\ Serve(Request("list", method, 0, NoData))
    /\ resp' = Render("notes/note_list.html", order_by_id(notes), NoErrors)
    /\ UNCHANGED <<notes, nextId, issued>>

note_detail(method, pk) ==
    /\ Serve(Request("detail", method, pk, NoData))
    /\ resp' = IF exists(notes, pk)
               THEN Render("notes/note_detail.html", <<get(notes, pk)>>, NoErrors)
               ELSE NotFound
    /\ UNCHANGED <<notes, nextId, issued>>

note_create(method, data) ==
    /\ Serve(Request("create", method, 0, data))
    /\ IF method = "POST"
       THEN IF is_valid(data)
            THEN LET note == construct_instance(
                                 [id |-> next_pk(notes, nextId)], data)
                 IN  /\ nextId <= MaxId
                     /\ notes' = notes \cup {note}
                     /\ nextId' = nextId + 1
                     /\ issued' = Append(issued, note.id)
                     /\ resp' = Redirect("note_detail", note.id)
            ELSE /\ resp' = Render("notes/note_form.html", <<>>, errors(data))
                 /\ UNCHANGED <<notes, nextId, issued>>
       ELSE /\ resp' = Render("notes/note_form.html", <<>>, NoErrors)
            /\ UNCHANGED <<notes, nextId, issued>>

\* faulty variant: an update POST for an unknown id creates the Note
note_update_or_create(method, pk, data) ==
    /\ Serve(Request("update", method, pk, data))
    /\ UNCHANGED <<nextId, issued>>
    /\ LET note == IF exists(notes, pk) THEN get(notes, pk) ELSE [id |-> pk] IN
       IF method = "POST"
       THEN IF is_valid(data)
            THEN LET saved == construct_instance(note, data)
                 IN  /\ notes' = save(notes, saved)
                     /\ resp' = Redirect("note_detail", saved.id)
            ELSE /\ resp' = Render("notes/note_form.html", <<>>, errors(data))
                 /\ notes' = notes
       ELSE /\ resp' = IF exists(notes, pk)
                       THEN Render("notes/note_form.html", <<note>>, NoErrors)
                       ELSE NotFound
            /\ notes' = notes

note_update(method, pk, data) ==
    /\ Serve(Request("update", method, pk, data))
    /\ UNCHANGED <<nextId, issued>>
    /\ IF ~exists(notes, pk)
       THEN /\ resp' = NotFound
            /\ notes' = notes
       ELSE LET note == get(notes, pk) IN
            IF method = "POST"
            THEN IF is_valid(data)
                 THEN LET saved == construct_instance(note, data)
                      IN  /\ notes' = save(notes, saved)
                          /\ resp' = Redirect("note_detail", saved.id)
                 ELSE /\ resp' = Render("notes/note_form.html", <<>>, errors(data))
                      /\ notes' = notes
            ELSE /\ resp' = Render("notes/note_form.html", <<note>>, NoErrors)
                 /\ notes' = notes

\* faulty variant: the Note is deleted whatever the method
note_delete_any_method(method, pk) ==
    /\ Serve(Request("delete", method, pk, NoData))
    /\ UNCHANGED <<nextId, issued>>
    /\ IF ~exists(notes, pk)
       THEN /\ resp' = NotFound
            /\ notes' = notes
       ELSE LET note == get(notes, pk) IN
            /\ notes' = delete(notes, note)
            /\ resp' = Redirect("note_list", 0)

note_delete(method, pk) ==
    /\ Serve(Request("delete", method, pk, NoData))
    /\ UNCHANGED <<nextId, issued>>
    /\ IF ~exists(notes, pk)
       THEN /\ resp' = NotFound
            /\ notes' = notes
       ELSE LET note == get(notes, pk) IN
            IF method = "POST"
            THEN /\ notes' = delete(notes, note)
                 /\ resp' = Redirect("note_list", 0)
            ELSE /\ resp' = Render("notes/note_confirm_delete.html", <<note>>, NoErrors)
                 /\ notes' = notes

NoForm == [bound |-> FALSE, data |-> NoData, checked |-> FALSE, errors |-> NoErrors]

NoRequest == Request("", "", 0, NoData)

Init ==
    /\ notes = {}
    /\ nextId = 1
    /\ req = NoRequest
    /\ resp = NoResponse
    /\ pre = {}
    /\ issued = <<>>
    /\ pcU = "idle" /\ uNote = NoNote
    /\ pcD = "idle" /\ dNote = NoNote
    /\ respD = NoResponse
    /\ form = NoForm

Next ==
    \/ \E method \in Methods : note_list(method)
    \/ \E method \in Methods, pk \in Pks : note_detail(method, pk)
    \/ \E data \in PostData : note_create("POST", data)
    \/ note_create("GET", NoData)
    \/ \E pk \in Pks, data \in PostData : note_update("POST", pk, data)
    \/ \E pk \in Pks : note_update("GET", pk, NoData)
    \/ \E method \in Methods, pk \in Pks : note_delete(method, pk)

Spec == Init /\ [][Next]_vars

----------------------------------------------------------------------------
(* NoteForm on its own: NoteForm(data=...) then form.is_valid() *)

FormChars == {" ", "a", "NUL"}

\* every text of at most MaxLen characters, and texts around the title limit:
\* exactly at it, one over it, at it once stripped, over it with a null
FormTexts ==
    UNION {[1..n -> FormChars] : n \in 0..MaxLen}
    \cup {Rep("a", TitleMaxLength),
          Rep("a", TitleMaxLength + 1),
          <<" ">> \o Rep("a", TitleMaxLength) \o <<" ">>,
          Rep("a", TitleMaxLength) \o <<"NUL">>}

FormData == DataOver(FormTexts, FormTexts)

InitForm ==
    /\ notes = {}
    /\ nextId = 1
    /\ req = NoRequest
    /\ resp = NoResponse
    /\ pre = {}
    /\ issued = <<>>
    /\ pcU = "idle" /\ uNote = NoNote
    /\ pcD = "idle" /\ dNote = NoNote
    /\ respD = NoResponse
    /\ \E data \in FormData :
          form = [bound |-> TRUE, data |-> data, checked |-> FALSE, errors |-> NoErrors]

form_is_valid ==
    /\ form.bound /\ ~form.checked
    /\ form' = [form EXCEPT !.checked = TRUE, !.errors = errors(form.data)]
    /\ UNCHANGED <<notes, nextId, req, resp, pre, issued, pcU, uNote, pcD, dNote, respD>>

NextForm == form_is_valid

SpecForm == InitForm /\ [][NextForm]_vars

----------------------------------------------------------------------------
(* An update POST and a delete POST for the same pk, served by two workers: *)
(* each handler's database statements are separate steps                    *)

\* the rows a valid submission can have stored
Rows ==
    {construct_instance([id |-> i], d) :
        i \in 1..MaxId, d \in {x \in PostData : is_valid(x)}}

\* the tables the views can have built: one row per id
Stores == {S \in SUBSET Rows : \A r, q \in S : r.id = q.id => r = q}

InitConc ==
    /\ notes \in Stores
    /\ nextId = MaxId + 1
    /\ \E pk \in Pks, data \in PostData : req = Request("update", "POST", pk, data)
    /\ resp = NoResponse
    /\ pre = notes
    /\ issued = [i \in 1..MaxId |-> i]
    /\ pcU = "lookup" /\ uNote = NoNote
    /\ pcD = "lookup" /\ dNote = NoNote
    /\ respD = NoResponse
    /\ form = NoForm

\* note = get_object_or_404(Note, pk=pk)
update_lookup ==
    /\ pcU = "lookup"
    /\ IF exists(notes, req.pk)
       THEN /\ uNote' = get(notes, req.pk)
            /\ pcU' = "validate"
            /\ resp' = resp
       ELSE /\ resp' = NotFound
            /\ pcU' = "done"
            /\ uNote' = uNote
    /\ UNCHANGED <<notes, nextId, req, pre, issued, pcD, dNote, respD, form>>

\* form = NoteForm(request.POST, instance=note); form.is_valid()
update_validate ==
    /\ pcU = "validate"
    /\ IF is_valid(req.data)
       THEN /\ uNote' = construct_instance(uNote, req.data)
            /\ pcU' = "save"
            /\ resp' = resp
       ELSE /\ resp' = Render("notes/note_form.html", <<>>, errors(req.data))
            /\ pcU' = "done"
            /\ uNote' = uNote
    /\ UNCHANGED <<notes, nextId, req, pre, issued, pcD, dNote, respD, form>>

\* note = form.save(); return redirect("note_detail", pk=note.pk)
update_save ==
    /\ pcU = "save"
    /\ notes' = save(notes, uNote)
    /\ resp' = Redirect("note_detail", uNote.id)
    /\ pcU' = "done"
    /\ UNCHANGED <<nextId, req, pre, issued, uNote, pcD, dNote, respD, form>>

\* note = get_object_or_404(Note, pk=pk)
delete_lookup ==
    /\ pcD = "lookup"
    /\ IF exists(notes, req.pk)
       THEN /\ dNote' = get(notes, req.pk)
            /\ pcD' = "delete"
            /\ respD' = respD
       ELSE /\ respD' = NotFound
            /\ pcD' = "done"
            /\ dNote' = dNote
    /\ UNCHANGED <<notes, nextId, req, resp, pre, issued, pcU, uNote, form>>

\* note.delete(); return redirect("note_list")
delete_delete ==
    /\ pcD = "delete"
    /\ notes' = delete(notes, dNote)
    /\ respD' = Redirect("note_list", 0)
    /\ pcD' = "done"
    /\ UNCHANGED <<nextId, req, resp, pre, issued, pcU, uNote, dNote, form>>

NextConc ==
    \/ update_lookup
    \/ update_validate
    \/ update_save
    \/ delete_lookup
    \/ delete_delete

SpecConc == InitConc /\ [][NextConc]_vars

----------------------------------------------------------------------------
(* Properties *)

IsRequest(op, method) == req.op = op /\ req.method = method

Submitted(name) == req.data[name]

Submits(name) == name \in DOMAIN req.data

Added == notes \ pre

\* C1 as stated: a create POST that passes validation adds exactly one Note
\* whose title and content equal the submitted values, under an id that was
\* not stored before, leaves every other Note as it was and redirects to the
\* new Note's detail view.
C1_CreateStoresSubmitted ==
    (IsRequest("create", "POST") /\ is_valid(req.data)) =>
        /\ Cardinality(notes) = Cardinality(pre) + 1
        /\ pre \subseteq notes
        /\ \E new \in Added :
              /\ new.title = Submitted("title")
              /\ new.content = Submitted("content")
              /\ new.id \notin Ids(pre)
              /\ resp = Redirect("note_detail", new.id)

\* C1 amended: the same, the new Note's title and content being the
\* submitted values with leading and trailing whitespace stripped.
C1_CreateStoresStripped ==
    (IsRequest("create", "POST") /\ is_valid(req.data)) =>
        /\ Cardinality(notes) = Cardinality(pre) + 1
        /\ pre \subseteq notes
        /\ \E new \in Added :
              /\ new.title = strip(Submitted("title"))
              /\ new.content = strip(Submitted("content"))
              /\ new.id \notin Ids(pre)
              /\ resp = Redirect("note_detail", new.id)

\* a padded submission was created next to an existing Note
C1_Witness ==
    /\ IsRequest("create", "POST") /\ is_valid(req.data)
    /\ pre # {}
    /\ Submitted("title") # strip(Submitted("title"))
    /\ resp.status = 302

\* C2: a create POST, or an update POST on an existing id, that fails
\* validation leaves the table as it was and answers 200 with the form
\* template and an error on every failing field, not a redirect.
C2_InvalidPostRerenders ==
    (/\ \/ IsRequest("create", "POST")
        \/ IsRequest("update", "POST") /\ exists(pre, req.pk)
     /\ ~is_valid(req.data)) =>
        /\ notes = pre
        /\ resp.status = 200
        /\ resp.template = "notes/note_form.html"
        /\ resp.location = NoLocation
        /\ \A name \in Fields :
              field_errors(req.data, name) # {} =>
                  /\ name \in DOMAIN resp.errors
                  /\ resp.errors[name] # {}

\* an update POST with both fields failing was refused on an existing Note
C2_Witness ==
    /\ IsRequest("update", "POST") /\ exists(pre, req.pk)
    /\ DOMAIN resp.errors = Fields
    /\ resp.status = 200

\* C3 as stated: a valid update POST on an existing id leaves that Note with
\* the submitted title and content, the set of ids and every other Note
\* unchanged, and redirects to that id's detail view.
C3_UpdateStoresSubmitted ==
    (IsRequest("update", "POST") /\ exists(pre, req.pk) /\ is_valid(req.data)) =>
        /\ Ids(notes) = Ids(pre)
        /\ Cardinality(notes) = Cardinality(pre)
        /\ \A r \in pre : r.id # req.pk => r \in notes
        /\ \A r \in notes : r.id = req.pk =>
              r.title = Submitted("title") /\ r.content = Submitted("content")
        /\ resp = Redirect("note_detail", req.pk)

\* C3 amended: the same, the Note's title and content being the submitted
\* values with leading and trailing whitespace stripped.
C3_UpdateStoresStripped ==
    (IsRequest("update", "POST") /\ exists(pre, req.pk) /\ is_valid(req.data)) =>
        /\ Ids(notes) = Ids(pre)
        /\ Cardinality(notes) = Cardinality(pre)
        /\ \A r \in pre : r.id # req.pk => r \in notes
        /\ \A r \in notes : r.id = req.pk =>
              /\ r.title = strip(Submitted("title"))
              /\ r.content = strip(Submitted("content"))
        /\ resp = Redirect("note_detail", req.pk)

\* a Note was changed by a valid update while another Note was stored
C3_Witness ==
    /\ IsRequest("update", "POST") /\ exists(pre, req.pk) /\ is_valid(req.data)
    /\ Cardinality(pre) > 1
    /\ notes # pre
    /\ resp.status = 302

\* C4: a delete POST on an existing id removes exactly that Note, keeps every
\* other Note as it was and redirects to the list view.
C4_DeleteRemovesExactlyOne ==
    (IsRequest("delete", "POST") /\ exists(pre, req.pk)) =>
        /\ ~exists(notes, req.pk)
        /\ notes = {r \in pre : r.id # req.pk}
        /\ resp = Redirect("note_list", 0)

\* one of two stored Notes was deleted
C4_Witness ==
    /\ IsRequest("delete", "POST") /\ exists(pre, req.pk)
    /\ Cardinality(pre) > 1
    /\ resp.status = 302

\* C5: detail, update and delete on an id that is not stored answer 404 and
\* leave the table as it was, whatever the method.
C5_UnknownIdNotFound ==
    (req.op \in {"detail", "update", "delete"} /\ ~exists(pre, req.pk)) =>
        /\ resp = NotFound
        /\ notes = pre

\* a valid update POST named an id that had been issued and deleted
C5_Witness ==
    /\ IsRequest("update", "POST") /\ is_valid(req.data)
    /\ ~exists(pre, req.pk)
    /\ \E i \in 1..Len(issued) : issued[i] = req.pk
    /\ resp.status = 404

\* C6: every stored Note has a non-empty title and a non-empty content.
C6_StoredNotesNonEmpty ==
    \A r \in notes : r.title # <<>> /\ r.content # <<>>

\* Notes are stored and a submission with a blank content has just been made
C6_Witness ==
    /\ notes # {}
    /\ req.method = "POST" /\ req.op \in {"create", "update"}
    /\ Submits("title") /\ strip(Submitted("title")) # <<>>
    /\ Submits("content") /\ Submitted("content") # <<>>
    /\ strip(Submitted("content")) = <<>>

\* C7: no two stored Notes share an id, and no create is given an id that an
\* earlier create was given, whether or not that Note is still stored.
C7_IdsUniqueNeverReused ==
    /\ \A r, q \in notes : r.id = q.id => r = q
    /\ \A i, j \in 1..Len(issued) : i # j => issued[i] # issued[j]
    /\ \A r \in notes : \E i \in 1..Len(issued) : issued[i] = r.id

\* the Note with the highest id was deleted and a Note was created after it
C7_Witness ==
    /\ IsRequest("create", "POST") /\ resp.status = 302
    /\ pre = {}
    /\ Len(issued) > 1

HasText(d, name) == name \in DOMAIN d /\ d[name] # <<>>

\* C8 as stated: the validator reports valid exactly when title and content
\* are both present and non-empty, whatever the title's length, and puts
\* "This field is required." on exactly the missing fields.
C8_ValidIffNonEmpty ==
    form.checked =>
        /\ (DOMAIN form.errors = {}) <=> (\A name \in Fields : HasText(form.data, name))
        /\ \A name \in Fields :
              /\ (name \in DOMAIN form.errors) <=> ~HasText(form.data, name)
              /\ ~HasText(form.data, name) => form.errors[name] = {RequiredError}

\* a field holds a character that is not whitespace
NonBlank(d, name) ==
    name \in DOMAIN d /\ \E i \in 1..Len(d[name]) : d[name][i] \notin Whitespace

\* the length of a text from its first to its last non-whitespace character
CoreLen(t) ==
    LET at == {i \in 1..Len(t) : t[i] \notin Whitespace} IN
    IF at = {} THEN 0
    ELSE (CHOOSE i \in at : \A j \in at : j <= i)
         - (CHOOSE i \in at : \A j \in at : i <= j) + 1

HasNull(d, name) ==
    name \in DOMAIN d /\ \E i \in 1..Len(d[name]) : d[name][i] = "NUL"

\* C8 amended: the validator reports valid exactly when title and content
\* both hold a non-whitespace character, the title stripped of leading and
\* trailing whitespace has at most 255 characters and neither field holds a
\* null character; "This field is required." is put, alone, on exactly the
\* fields that are missing, empty or whitespace only, each independently.
C8_ValidIffNonBlankAndWithinLimit ==
    form.checked =>
        /\ (DOMAIN form.errors = {}) <=>
              /\ \A name \in Fields :
                    NonBlank(form.data, name) /\ ~HasNull(form.data, name)
              /\ CoreLen(form.data["title"]) <= TitleMaxLength
        /\ \A name \in Fields :
              /\ ~NonBlank(form.data, name) =>
                    name \in DOMAIN form.errors /\ form.errors[name] = {RequiredError}
              /\ NonBlank(form.data, name) =>
                    (name \notin DOMAIN form.errors
                     \/ RequiredError \notin form.errors[name])

\* a padded title of exactly the maximum length was accepted
C8_Witness ==
    /\ form.checked
    /\ DOMAIN form.errors = {}
    /\ Len(form.data["title"]) > TitleMaxLength
    /\ CoreLen(form.data["title"]) = TitleMaxLength

\* C9: list and detail requests, and create, update and delete requests whose
\* method is not POST, leave the table as it was.
C9_OnlyPostsChangeTheStore ==
    (req.op \in {"list", "detail"}
     \/ (req.op \in {"create", "update", "delete"} /\ req.method # "POST")) =>
        notes = pre

\* the delete confirmation of a stored Note was rendered
C9_Witness ==
    /\ IsRequest("delete", "GET") /\ exists(pre, req.pk)
    /\ resp.status = 200
    /\ resp.template = "notes/note_confirm_delete.html"

\* C10: with an update POST and a delete POST for the same id interleaved,
\* once both have finished and the delete went through, no Note with that
\* id is stored.
C10_UpdateNeverRestoresDeleted ==
    (pcU = "done" /\ pcD = "done" /\ respD.status = 302) => ~exists(notes, req.pk)

====
